---- MODULE Spec2Model ----
(***************************************************************************)
(* Model of src/server.js: the WebSocket Pong server.  Connections are     *)
(* authenticated at upgrade, registered in metaByWs, feed state snapshots  *)
(* through the Redis-backed stateLimiter, and a periodic worker turns the  *)
(* latest snapshot into commentary through the commentaryLimiter and the   *)
(* simulated or OpenAI generator.  A second periodic worker sends coach    *)
(* tips to the sessions that enabled them, through the same limiter.       *)
(*                                                                         *)
(* Time is counted in units of 1200 ms, the default COMMENTARY_INTERVAL_MS. *)
(* Numbers that carry halves (aiSpeed) are counted in halves.              *)
(***************************************************************************)
EXTENDS Integers, Sequences, FiniteSets, TLC

\* ---- bounds of the model ----
NumConns == 2
MaxFrames == 2
MaxTicks == 2
ClockSpan == 2
MaxChunks == 2

\* ---- configuration (src/server.js:45-48, 75, 84, 336) ----
COMMENTARY_INTERVAL_MS == 1
COACH_INTERVAL_MS == 2
STATE_SEND_LIMIT_PER_SECOND == 1
COMMENTARY_LIMIT_PER_MINUTE == 2
StateDuration == 1
CommentaryDuration == 50
MinTickPeriod == 1

Conns == 1..NumConns
TickIds == 1..MaxTicks
BootTime == COACH_INTERVAL_MS
MaxClock == BootTime + ClockSpan

Max(a, b) == IF a > b THEN a ELSE b
Min(a, b) == IF a < b THEN a ELSE b

\* period handed to setInterval for the commentary worker
CommentaryTickPeriod == Max(MinTickPeriod, COMMENTARY_INTERVAL_MS)

VARIABLES
    clock,          \* Date.now()
    SIMULATED_MODE, \* SIMULATED_MODE || !openaiClient, fixed at start-up
    ws,             \* the sockets: readyState, user, and the upgrade request
    metaByWs,       \* Map ws -> meta object (a reference into metaObj)
    metaObj,        \* the meta objects, by identity
    redis,          \* the limiter keys in the shared store
    redisQ,         \* consume() promises not yet settled, in reply order
    out,            \* frames delivered to each client, in order
    ticks,          \* the invocations of the commentary worker
    nextTickAt,     \* earliest time of the next commentary tick
    nFrames,        \* inbound frames received so far
    genLog,         \* per socket, the times of the last two generator calls
    granted,        \* per limiter and identity, the calls of the current window
    coach,          \* the invocations of the coach worker
    nextCoachAt,    \* earliest time of the next coach tick
    lastAdmitted,   \* per socket, the payload of the last admitted state frame
    genArg,         \* per socket, the snapshot the generator was last given
    invoked,        \* per identity, the admitted generations of the window
    sendsAfterClose \* per socket, who called ws.send on it when it was not open

vars == <<clock, SIMULATED_MODE, ws, metaByWs, metaObj, redis, redisQ, out,
          ticks, nextTickAt, nFrames, genLog, granted, coach, nextCoachAt,
          lastAdmitted, genArg, invoked, sendsAfterClose>>

\* ------------------------------------------------------------------------
\* JavaScript values
\* ------------------------------------------------------------------------
JsNull == [t |-> "null"]
JsUndefined == [t |-> "undefined"]
JsNaN == [t |-> "NaN"]
JsNum(n) == [t |-> "number", v |-> n]
JsStr(s) == [t |-> "string", v |-> s]
JsBool(b) == [t |-> "boolean", v |-> b]

\* JS truthiness
Truthy(x) ==
    CASE x.t = "null" -> FALSE
      [] x.t = "undefined" -> FALSE
      [] x.t = "NaN" -> FALSE
      [] x.t = "number" -> x.v # 0
      [] x.t = "string" -> x.v # ""
      [] x.t = "boolean" -> x.v
      [] OTHER -> TRUE

\* obj.field, undefined when the field is absent
Get(obj, f) == IF f \in DOMAIN obj THEN obj[f] ELSE JsUndefined

\* obj.field = v
SetField(obj, f, v) == [k \in (DOMAIN obj) \cup {f} |-> IF k = f THEN v ELSE obj[k]]

\* ------------------------------------------------------------------------
\* Snapshots a client can put into a state frame
\* ------------------------------------------------------------------------
Vec == [t |-> "object"]
Snapshot(speed) ==
    [t |-> "object", ball |-> Vec, leftPaddle |-> Vec,
     rightPaddle |-> [t |-> "object", speed |-> speed], score |-> Vec]
S_good == Snapshot(JsNum(8))
S_badspeed == Snapshot(JsStr("fast"))
S_empty == [t |-> "object"]
Payloads == {S_good, S_badspeed, S_empty, JsUndefined}

\* ------------------------------------------------------------------------
\* Upgrade: sub-protocol and JWT (server.js:103-143)
\* ------------------------------------------------------------------------
\* jwt.verify(token, JWT_SECRET): the claims, or it throws
jwtVerify(token) ==
    CASE token = "jwt-u1" -> [ok |-> TRUE, user |-> [sub |-> JsStr("u1"), role |-> JsStr("tester")]]
      [] token = "jwt-nosub" -> [ok |-> TRUE, user |-> [role |-> JsStr("tester")]]
      [] OTHER -> [ok |-> FALSE, user |-> << >>]

\* the upgrade requests tried: the items of the sec-websocket-protocol
\* header between commas, and the token query parameter ("" when absent)
Requests ==
    { [header |-> <<"pong-proto.v1", "jwt-u1">>, query |-> ""],
      [header |-> <<"", "pong-proto.v1">>, query |-> "jwt-nosub"],
      [header |-> << >>, query |-> "jwt-u1"],
      [header |-> <<"jwt-u1", "pong-proto.v1">>, query |-> ""],
      [header |-> <<"pong-proto.v1">>, query |-> ""],
      [header |-> <<"pong-proto.v1", "jwt-expired">>, query |-> "jwt-u1"] }

parseProtocols(req) == SelectSeq(req.header, LAMBDA s : s # "")

\* an upgrade handler that verifies the credential and forgets the sub-protocol
UpgradeDecisionAnyProtocol(req) ==
    LET protocols == parseProtocols(req)
        token == IF Len(protocols) >= 2 THEN protocols[2] ELSE req.query
    IN  IF token # "" /\ jwtVerify(token).ok
        THEN [accept |-> TRUE, status |-> 101, user |-> jwtVerify(token).user]
        ELSE [accept |-> FALSE, status |-> 401, user |-> << >>]

\* what the upgrade handler does with a request: refuse (400/401) or accept
UpgradeDecision(req) ==
    LET protocols == parseProtocols(req)
        token == IF Len(protocols) >= 2 THEN protocols[2] ELSE req.query
    IN  IF Len(protocols) = 0 \/ protocols[1] # "pong-proto.v1"
        THEN [accept |-> FALSE, status |-> 400, user |-> << >>]
        ELSE IF token = ""
        THEN [accept |-> FALSE, status |-> 401, user |-> << >>]
        ELSE IF jwtVerify(token).ok
        THEN [accept |-> TRUE, status |-> 101, user |-> jwtVerify(token).user]
        ELSE [accept |-> FALSE, status |-> 401, user |-> << >>]

\* a limiter key per socket instead of per identity
userKeyPerSocket(c) == ToString(c)

\* ws.user?.sub || 'anon'
userKey(c) ==
    LET sub == Get(ws[c].user, "sub")
    IN  IF Truthy(sub) THEN sub.v ELSE "anon"

Keys == {"u1", "anon"} \cup {ToString(c) : c \in Conns}

\* ------------------------------------------------------------------------
\* Rate limiters (server.js:70-86)
\* ------------------------------------------------------------------------
stateLimiter ==
    [keyPrefix |-> "rl_state", points |-> STATE_SEND_LIMIT_PER_SECOND,
     duration |-> StateDuration]
commentaryLimiter ==
    [keyPrefix |-> "rl_commentary", points |-> COMMENTARY_LIMIT_PER_MINUTE,
     duration |-> CommentaryDuration]

NoKey == [n |-> 0, exp |-> 0]

\* the key as the store holds it now: gone once it has expired
Live(store, lim, key) ==
    LET r == store[lim.keyPrefix][key]
    IN  IF r.n > 0 /\ clock < r.exp THEN r ELSE NoKey

\* is a call that brings the key to n consumed points admitted
WithinPoints(lim, n) == n <= lim.points

\* limiter.consume(key): one point is added to the key (created with the
\* limiter's duration); the call resolves when the key stays within points.
\* A key already beyond points is blocked in memory and is not written.
\* fail: the store does not answer and the promise rejects with the error.
Consume(store, lim, key, fail) ==
    LET r == Live(store, lim, key)
        n == r.n + 1
        e == IF r.n = 0 THEN clock + lim.duration ELSE r.exp
    IN  IF fail THEN [ok |-> FALSE, store |-> store, exp |-> r.exp]
        ELSE IF ~WithinPoints(lim, r.n)
        THEN [ok |-> FALSE, store |-> store, exp |-> r.exp]
        ELSE [ok |-> WithinPoints(lim, n),
              store |-> [store EXCEPT ![lim.keyPrefix][key] = [n |-> n, exp |-> e]],
              exp |-> e]

\* the identity a socket was authenticated as
Identity(c) == IF "sub" \in DOMAIN ws[c].user THEN ws[c].user.sub.v ELSE "anon"

\* the record of the calls one identity made in the limiter window `exp`:
\* how many the store answered, how many it admitted, and the last answer
\* (a call the store did not answer is not a decision of the limiter)
Grant(g, lim, id, exp, ok, fail) ==
    LET old == g[lim.keyPrefix][id]
        base == IF old.win = exp THEN old
                ELSE [win |-> exp, calls |-> 0, admitted |-> 0, last |-> TRUE]
    IN  IF fail THEN g
        ELSE [g EXCEPT ![lim.keyPrefix][id] =
                [win |-> exp, calls |-> base.calls + 1,
                 admitted |-> base.admitted + (IF ok THEN 1 ELSE 0), last |-> ok]]

\* the record of the generations (commentary or coach) admitted for the
\* identity of socket c in the window the rl_commentary key is in
Admit(inv, c, store, ok, fail) ==
    LET w == Live(store, commentaryLimiter, userKey(c)).exp
        old == inv[Identity(c)]
    IN  IF fail \/ ~ok THEN inv
        ELSE [inv EXCEPT ![Identity(c)] =
                [win |-> w, n |-> (IF old.win = w THEN old.n ELSE 0) + 1]]

\* ------------------------------------------------------------------------
\* Texts: a text is a sequence of pieces
\* ------------------------------------------------------------------------
SP == [p |-> "space"]
Word(s) == [p |-> "word", s |-> s]
Json(v) == [p |-> "json", v |-> v]
Lit(s) == <<[p |-> "lit", s |-> s]>>

\* String.prototype.trim
RECURSIVE TrimLeft(_)
TrimLeft(x) == IF x # << >> /\ Head(x) = SP THEN TrimLeft(Tail(x)) ELSE x
RECURSIVE TrimRight(_)
TrimRight(x) ==
    IF x # << >> /\ x[Len(x)] = SP THEN TrimRight(SubSeq(x, 1, Len(x) - 1)) ELSE x
Trim(x) == TrimRight(TrimLeft(x))

\* JSON.stringify of a value: NaN is written as null
JSONvalue(v) ==
    IF v.t = "NaN" THEN JsNull
    ELSE IF v.t = "object" THEN [k \in DOMAIN v |-> IF k = "t" THEN "object" ELSE
                                   IF v[k].t = "NaN" THEN JsNull ELSE v[k]]
    ELSE v
JSONstringify(v) == <<Json(JSONvalue(v))>>

\* JSON.parse of a text: the value of a single JSON document (white space
\* around it allowed), or a SyntaxError
JSONparse(x) ==
    LET y == Trim(x)
    IN  IF Len(y) = 1 /\ y[1].p = "json" THEN [ok |-> TRUE, v |-> y[1].v]
        ELSE [ok |-> FALSE, v |-> JsUndefined]

\* ------------------------------------------------------------------------
\* Outbound events
\* ------------------------------------------------------------------------
\* ws.send(JSON.stringify(ev)): delivered only on an open socket
Send(o, c, evs) == IF ws[c].readyState = "OPEN" THEN [o EXCEPT ![c] = @ \o evs] ELSE o

\* the same calls of ws.send, as the record of the callers ("message",
\* "commentary", "coach") that made one on a socket that was not open
SendAfterClose(c, origin, evs) ==
    IF evs # << >> /\ ws[c].readyState # "OPEN"
    THEN [sendsAfterClose EXCEPT ![c] = @ \cup {origin}]
    ELSE sendsAfterClose

NewMeta ==
    [lastCommentAt |-> JsNum(0), lastCoachAt |-> JsNum(0),
     coachEnabled |-> JsBool(FALSE), lastState |-> JsNull]

\* an event that reports nothing of the token
WelcomeEventNoClaims(user) == [type |-> "welcome", user |-> << >>]

\* { type: 'welcome', user: ws.user }
WelcomeEvent(user) == [type |-> "welcome", user |-> user]

NoSocket == [readyState |-> "NONE", user |-> << >>, req |-> [header |-> << >>, query |-> ""]]

\* metaByWs.get(ws) || {} : the object and its identity
MetaRef(byws, c) == IF byws[c] = "none" THEN "fresh" ELSE byws[c]
MetaVal(objs, byws, c) == IF byws[c] = "none" THEN << >> ELSE objs[c][byws[c]]

Init ==
    /\ clock = BootTime
    /\ SIMULATED_MODE \in BOOLEAN
    /\ ws = [c \in Conns |-> NoSocket]
    /\ metaByWs = [c \in Conns |-> "none"]
    /\ metaObj = [c \in Conns |-> [orig |-> << >>, fresh |-> << >>]]
    /\ redis = [p \in {"rl_state", "rl_commentary"} |-> [k \in Keys |-> NoKey]]
    /\ redisQ = << >>
    /\ out = [c \in Conns |-> << >>]
    /\ ticks = [t \in TickIds |-> [pc |-> "idle"]]
    /\ nextTickAt = BootTime + CommentaryTickPeriod
    /\ nFrames = 0
    /\ genLog = [c \in Conns |-> << >>]
    /\ granted = [p \in {"rl_state", "rl_commentary"} |->
                    [k \in {"u1", "anon"} |-> [win |-> 0, calls |-> 0, admitted |-> 0, last |-> TRUE]]]
    /\ coach = [t \in TickIds |-> [pc |-> "idle"]]
    /\ nextCoachAt = BootTime + COACH_INTERVAL_MS
    /\ lastAdmitted = [c \in Conns |-> [has |-> FALSE, v |-> JsNull]]
    /\ genArg = [c \in Conns |-> [has |-> FALSE, used |-> JsNull, current |-> JsNull]]
    /\ invoked = [k \in {"u1", "anon"} |-> [win |-> 0, n |-> 0]]
    /\ sendsAfterClose = [c \in Conns |-> {}]

\* time passes
Advance ==
    /\ clock < MaxClock
    /\ clock' = clock + 1
    /\ UNCHANGED <<sendsAfterClose, SIMULATED_MODE, ws, metaByWs, metaObj, redis, redisQ, out,
                   ticks, nextTickAt, nFrames, genLog, granted, coach,
                   nextCoachAt, lastAdmitted, genArg, invoked>>

\* server.on('upgrade') followed, when accepted, by wss.on('connection')
Upgrade(c, req) ==
    LET d == UpgradeDecision(req)
    IN  /\ ws[c].readyState = "NONE"
        /\ \A b \in Conns : b < c => ws[b].readyState # "NONE"
        /\ IF d.accept
           THEN /\ ws' = [ws EXCEPT ![c] = [readyState |-> "OPEN", user |-> d.user, req |-> req]]
                /\ metaByWs' = [metaByWs EXCEPT ![c] = "orig"]
                /\ metaObj' = [metaObj EXCEPT ![c].orig = NewMeta]
                /\ out' = [out EXCEPT ![c] = <<WelcomeEvent(d.user)>>]
           ELSE /\ ws' = [ws EXCEPT ![c] = [readyState |-> "REFUSED", user |-> << >>, req |-> req]]
                /\ UNCHANGED <<metaByWs, metaObj, out>>
        /\ UNCHANGED <<sendsAfterClose, clock, SIMULATED_MODE, redis, redisQ, ticks, nextTickAt,
                       nFrames, genLog, granted, coach, nextCoachAt,
                       lastAdmitted, genArg, invoked>>

\* ws.on('close')
Close(c) ==
    /\ ws[c].readyState = "OPEN"
    /\ ws' = [ws EXCEPT ![c].readyState = "CLOSED"]
    /\ metaByWs' = [metaByWs EXCEPT ![c] = "none"]
    /\ UNCHANGED <<sendsAfterClose, clock, SIMULATED_MODE, metaObj, redis, redisQ, out, ticks,
                   nextTickAt, nFrames, genLog, granted, coach, nextCoachAt,
                   lastAdmitted, genArg, invoked>>

\* ------------------------------------------------------------------------
\* Inbound frames (server.js:159-212)
\* ------------------------------------------------------------------------
\* a frame on the wire: isBinary, whether the bytes decode, and the value
BinState(x) ==
    [isBinary |-> TRUE, valid |-> TRUE,
     data |-> [t |-> "array",
               items |-> IF x = JsUndefined THEN <<JsStr("state")>> ELSE <<JsStr("state"), x>>]]
TextState(x) ==
    [isBinary |-> FALSE, valid |-> TRUE,
     data |-> IF x = JsUndefined THEN [t |-> "object", type |-> JsStr("state")]
              ELSE [t |-> "object", type |-> JsStr("state"), state |-> x]]
TextObj(o) == [isBinary |-> FALSE, valid |-> TRUE, data |-> o]
Garbage(b) == [isBinary |-> b, valid |-> FALSE, data |-> JsUndefined]

BinObj(o) == [isBinary |-> TRUE, valid |-> TRUE, data |-> o]
JsArray(items) == [t |-> "array", items |-> items]

\* { type: 'coach_enable', enable: v }, without `enable` when v is undefined
CoachEnable(v) ==
    TextObj(IF v = JsUndefined THEN [t |-> "object", type |-> JsStr("coach_enable")]
            ELSE [t |-> "object", type |-> JsStr("coach_enable"), enable |-> v])
Ping == TextObj([t |-> "object", type |-> JsStr("ping")])

\* frames that do not decode, and frames that decode to no command
UndecodableFrames == {Garbage(TRUE), Garbage(FALSE)}
UnknownFrames ==
    {TextObj(JsNull), BinObj(JsNull), TextObj(JsNum(5)), BinObj(JsStr("state")),
     TextObj(JsArray(<< >>)), BinObj(JsArray(<<JsStr("other"), S_good>>)),
     TextObj([t |-> "object"]), TextObj([t |-> "object", type |-> JsStr("other")])}
CoachEnableFrames ==
    {CoachEnable(v) : v \in {JsBool(TRUE), JsBool(FALSE), JsStr("yes"), JsNum(0), JsUndefined}}

Frames ==
    {BinState(x) : x \in Payloads} \cup {TextState(x) : x \in Payloads}
    \cup CoachEnableFrames \cup {Ping} \cup UndecodableFrames \cup UnknownFrames

\* a decoder that hands on whatever it was given
DecodeNeverThrows(frame) == [ok |-> TRUE, data |-> frame.data]

\* msgpack.decode(msg) / JSON.parse(msg.toString())
Decode(frame) == [ok |-> frame.valid, data |-> frame.data]

\* data[i] of a decoded array (0-based i)
Item(data, i) == IF i + 1 <= Len(data.items) THEN data.items[i + 1] ELSE JsUndefined

ErrorEvent(m) == [type |-> "error", message |-> m]

\* a handler that looks at data.type only
DispatchByType(data) ==
    IF Truthy(data) /\ Get(data, "type") = JsStr("state") THEN "state-object"
    ELSE IF Truthy(data) /\ Get(data, "type") = JsStr("coach_enable") THEN "coach_enable"
    ELSE IF Truthy(data) /\ Get(data, "type") = JsStr("ping") THEN "ping"
    ELSE "unknown"

\* the branch the handler takes for decoded data
Dispatch(data) ==
    IF data.t = "array" /\ Item(data, 0) = JsStr("state") THEN "state-array"
    ELSE IF Truthy(data) /\ Get(data, "type") = JsStr("state") THEN "state-object"
    ELSE IF Truthy(data) /\ Get(data, "type") = JsStr("coach_enable") THEN "coach_enable"
    ELSE IF Truthy(data) /\ Get(data, "type") = JsStr("ping") THEN "ping"
    ELSE "unknown"

\* a coach_enable branch that leaves lastCoachAt as it is
CoachEnableEffectKeepsTime(meta, data) ==
    SetField(meta, "coachEnabled", JsBool(Truthy(Get(data, "enable"))))

\* meta.coachEnabled = !!data.enable; meta.lastCoachAt = 0
CoachEnableEffect(meta, data) ==
    SetField(SetField(meta, "coachEnabled", JsBool(Truthy(Get(data, "enable")))),
             "lastCoachAt", JsNum(0))

\* ws.on('message'): up to the first await, or to the end of the handler
Message(c, frame, fail) ==
    LET d == Decode(frame)
        b == Dispatch(d.data)
        r == Consume(redis, stateLimiter, userKey(c), fail)
        state == IF b = "state-array" THEN Item(d.data, 1) ELSE Get(d.data, "state")
        meta == MetaVal(metaObj, metaByWs, c)
        ref == MetaRef(metaByWs, c)
        after == CoachEnableEffect(meta, d.data)
    IN  /\ ws[c].readyState = "OPEN"
        /\ nFrames' = nFrames + 1
        /\ IF ~d.ok
           THEN /\ out' = Send(out, c, <<ErrorEvent("invalid message")>>)
                /\ UNCHANGED <<metaByWs, metaObj, redis, redisQ, granted, lastAdmitted>>
           ELSE IF b \in {"state-array", "state-object"}
           THEN /\ redis' = r.store
                /\ redisQ' = Append(redisQ, [kind |-> "frame", ws |-> c, state |-> state, ok |-> r.ok])
                /\ granted' = Grant(granted, stateLimiter, Identity(c), r.exp, r.ok, fail)
                /\ lastAdmitted' = IF r.ok THEN [lastAdmitted EXCEPT ![c] = [has |-> TRUE, v |-> state]]
                                   ELSE lastAdmitted
                /\ UNCHANGED <<metaByWs, metaObj, out>>
           ELSE IF b = "coach_enable"
           THEN /\ metaObj' = [metaObj EXCEPT ![c][ref] = after]
                /\ metaByWs' = [metaByWs EXCEPT ![c] = ref]
                /\ out' = Send(out, c, <<[type |-> "coach_status", enabled |-> after.coachEnabled]>>)
                /\ UNCHANGED <<redis, redisQ, granted, lastAdmitted>>
           ELSE IF b = "ping"
           THEN /\ out' = Send(out, c, <<[type |-> "pong", ts |-> clock]>>)
                /\ UNCHANGED <<metaByWs, metaObj, redis, redisQ, granted, lastAdmitted>>
           ELSE /\ out' = Send(out, c, <<ErrorEvent("unknown message type")>>)
                /\ UNCHANGED <<metaByWs, metaObj, redis, redisQ, granted, lastAdmitted>>
        /\ UNCHANGED <<sendsAfterClose, clock, SIMULATED_MODE, ws, ticks, nextTickAt, genLog, coach,
                       nextCoachAt, genArg, invoked>>

\* a handler that stores the snapshot whatever consume answered
StateFrameEffectAlwaysStores(h, objs, byws) ==
    [metaObj |-> [objs EXCEPT ![h.ws][MetaRef(byws, h.ws)] =
                     SetField(MetaVal(objs, byws, h.ws), "lastState", h.state)],
     metaByWs |-> [byws EXCEPT ![h.ws] = MetaRef(byws, h.ws)],
     events |-> IF h.ok THEN << >> ELSE <<ErrorEvent("state rate limit exceeded")>>]

\* what the state branch does once consume has settled: the catch block on
\* a rejection, else meta.lastState = state and metaByWs.set(ws, meta)
StateFrameEffect(h, objs, byws) ==
    IF ~h.ok
    THEN [metaObj |-> objs, metaByWs |-> byws,
          events |-> <<ErrorEvent("state rate limit exceeded")>>]
    ELSE [metaObj |-> [objs EXCEPT ![h.ws][MetaRef(byws, h.ws)] =
                          SetField(MetaVal(objs, byws, h.ws), "lastState", h.state)],
          metaByWs |-> [byws EXCEPT ![h.ws] = MetaRef(byws, h.ws)],
          events |-> << >>]

\* the handler of a state frame resumes after await stateLimiter.consume
FrameReply ==
    /\ redisQ # << >>
    /\ Head(redisQ).kind = "frame"
    /\ LET e == StateFrameEffect(Head(redisQ), metaObj, metaByWs)
       IN  /\ metaObj' = e.metaObj
           /\ metaByWs' = e.metaByWs
           /\ out' = Send(out, Head(redisQ).ws, e.events)
           /\ sendsAfterClose' = SendAfterClose(Head(redisQ).ws, "message", e.events)
    /\ redisQ' = Tail(redisQ)
    /\ UNCHANGED <<clock, SIMULATED_MODE, ws, redis, ticks, nextTickAt, nFrames,
                   genLog, granted, coach, nextCoachAt, lastAdmitted, genArg,
                   invoked>>

\* ------------------------------------------------------------------------
\* Generators (server.js:221-232, 293-315)
\* ------------------------------------------------------------------------
phrases ==
    <<"Nice block!", "Amazing reflex!", "Edge of the paddle", "Fast return!",
      "Deep to the corner!", "Watch the angle!", "Move early to intercept",
      "Keep paddle centered", "Aim low for a tough return">>

\* the outcomes of Math.random() in generateSimulatedCommentary: the phrase
\* picked, whether the 5% branch is taken, and the sign of the adjustment
Rolls == [phrase : 1..Len(phrases), adjust : BOOLEAN, down : BOOLEAN]

Nullish(x) == x.t \in {"null", "undefined"}

\* a + n for a number n
JsPlus(a, n) ==
    CASE a.t = "number" -> JsNum(a.v + n)
      [] a.t = "boolean" -> JsNum((IF a.v THEN 2 ELSE 0) + n)
      [] a.t = "NaN" -> JsNaN
      [] OTHER -> JsStr("concatenated")

\* ToNumber: the strings of the model are not numeric
ToNumber(a) ==
    CASE a.t = "number" -> a
      [] a.t = "boolean" -> JsNum(IF a.v THEN 2 ELSE 0)
      [] a.t = "null" -> JsNum(0)
      [] OTHER -> JsNaN

MathMin(a, b) ==
    IF ToNumber(a).t = "NaN" \/ ToNumber(b).t = "NaN" THEN JsNaN
    ELSE JsNum(Min(ToNumber(a).v, ToNumber(b).v))
MathMax(a, b) ==
    IF ToNumber(a).t = "NaN" \/ ToNumber(b).t = "NaN" THEN JsNaN
    ELSE JsNum(Max(ToNumber(a).v, ToNumber(b).v))

generateSimulatedCommentary(state, roll) ==
    LET speed == IF Nullish(state) THEN JsUndefined
                 ELSE IF Nullish(Get(state, "rightPaddle")) THEN JsUndefined
                 ELSE Get(Get(state, "rightPaddle"), "speed")
        base == IF Truthy(speed) THEN speed ELSE JsNum(8)
        aiSpeed == MathMax(JsNum(4), MathMin(JsNum(16), JsPlus(base, IF roll.down THEN -1 ELSE 1)))
    IN  IF roll.adjust
        THEN JSONstringify([t |-> "object", type |-> JsStr("aiAdjust"), aiSpeed |-> aiSpeed])
        ELSE <<Word(phrases[roll.phrase])>>

\* building userPrompt dereferences s.ball, s.leftPaddle, s.rightPaddle and
\* s.score: a TypeError when s or one of them is null or undefined
PromptThrows(s) ==
    \/ Nullish(s)
    \/ Nullish(Get(s, "ball"))
    \/ Nullish(Get(s, "leftPaddle"))
    \/ Nullish(Get(s, "rightPaddle"))
    \/ Nullish(Get(s, "score"))

\* the text chunks a stream part can carry
Adjust(v) == [t |-> "object", type |-> JsStr("aiAdjust"), aiSpeed |-> v]
Chunks == {<< >>, <<SP>>, <<Word("Nice")>>, <<Json(Adjust(JsNum(10)))>>, <<Json(Adjust(JsStr("5")))>>}

\* ------------------------------------------------------------------------
\* Commentary worker (server.js:243-336)
\* ------------------------------------------------------------------------
CommentaryEvent(text, kind, t) == [type |-> "commentary", text |-> text, kind |-> kind, by |-> t]
ChunkEvent(text, t) == [type |-> "commentary_chunk", text |-> text, by |-> t]
ControlEvents(parsed, final, t) ==
    << [type |-> "control", control |-> parsed, final |-> final, by |-> t],
       CommentaryEvent(<<[p |-> "speedset", v |-> Get(parsed, "aiSpeed")]>>, "confirm", t) >>

\* simulated path: the events for the generated text
RouteSimulated(text, t) ==
    LET parsed == JSONparse(text)
    IN  IF parsed.ok /\ Truthy(parsed.v) /\ Get(parsed.v, "type") = JsStr("aiAdjust")
        THEN ControlEvents(parsed.v, text, t)
        ELSE <<CommentaryEvent(text, "plain", t)>>

\* provider path: the events once the stream has ended
RouteStreamed(aggregated, t) ==
    LET finalText == Trim(aggregated)
        parsed == JSONparse(finalText)
    IN  IF /\ parsed.ok /\ Truthy(parsed.v)
           /\ Get(parsed.v, "type") = JsStr("aiAdjust")
           /\ Get(parsed.v, "aiSpeed").t = "number"
        THEN ControlEvents(parsed.v, finalText, t)
        ELSE <<CommentaryEvent(finalText, "plain", t)>>

NumOr0(x) == IF Truthy(x) THEN x.v ELSE 0

\* gates that do not ask for a snapshot
EligibleWithoutState(now, c, objs, byws) ==
    /\ ws[c].readyState = "OPEN"
    /\ byws[c] # "none"
    /\ ~(now - NumOr0(Get(objs[c][byws[c]], "lastCommentAt")) < COMMENTARY_INTERVAL_MS)

\* the three gates of one loop iteration
Eligible(now, c, objs, byws) ==
    /\ ws[c].readyState = "OPEN"
    /\ byws[c] # "none"
    /\ Truthy(Get(objs[c][byws[c]], "lastState"))
    /\ ~(now - NumOr0(Get(objs[c][byws[c]], "lastCommentAt")) < COMMENTARY_INTERVAL_MS)

\* the first client at or after `from` that passes the gates, 0 if none
NextEligible(now, from, objs, byws) ==
    LET S == {c \in Conns : c >= from /\ Eligible(now, c, objs, byws)}
    IN  IF S = {} THEN 0 ELSE CHOOSE c \in S : \A b \in S : c <= b

\* the for-of loop runs on from client `from` until it awaits consume for
\* a client or runs out of clients
Continue(t, now, from, objs, byws, q, fail) ==
    LET c == NextEligible(now, from, objs, byws)
        r == Consume(redis, commentaryLimiter, userKey(c), fail)
    IN  IF c = 0
        THEN /\ ticks' = [ticks EXCEPT ![t] = [pc |-> "done"]]
             /\ redisQ' = q
             /\ UNCHANGED <<redis, granted, invoked>>
        ELSE /\ ticks' = [ticks EXCEPT ![t] =
                    [pc |-> "consume", now |-> now, ws |-> c, meta |-> byws[c],
                     aggregated |-> << >>, parts |-> 0]]
             /\ redisQ' = Append(q, [kind |-> "tick", tick |-> t, ok |-> r.ok])
             /\ redis' = r.store
             /\ granted' = Grant(granted, commentaryLimiter, Identity(c), r.exp, r.ok, fail)
             /\ invoked' = Admit(invoked, c, r.store, r.ok, fail)

\* a worker that never writes the timestamp
StampNever(objs, c, ref, field, now) == objs

\* meta.lastCommentAt = now / meta.lastCoachAt = now, on the meta object the
\* worker read before it awaited
Stamp(objs, c, ref, field, now) == [objs EXCEPT ![c][ref] = SetField(@, field, JsNum(now))]

\* the generator is called for client c now
LogCall(c) == [genLog EXCEPT ![c] = IF Len(@) < 2 THEN Append(@, clock) ELSE <<@[2], clock>>]

\* setInterval fires the worker: const now = Date.now(), then the loop
TickStart(t, fail) ==
    /\ ticks[t].pc = "idle"
    /\ \A u \in TickIds : u < t => ticks[u].pc # "idle"
    /\ clock >= nextTickAt
    /\ nextTickAt' = clock + CommentaryTickPeriod
    /\ Continue(t, clock, 1, metaObj, metaByWs, redisQ, fail)
    /\ UNCHANGED <<sendsAfterClose, clock, SIMULATED_MODE, ws, metaByWs, metaObj, out, nFrames, genLog,
                   coach, nextCoachAt, lastAdmitted, genArg>>

\* the worker resumes after await commentaryLimiter.consume
TickReply(roll, fail) ==
    /\ redisQ # << >>
    /\ Head(redisQ).kind = "tick"
    /\ LET t == Head(redisQ).tick
           tk == ticks[t]
           c == tk.ws
           objs == Stamp(metaObj, c, tk.meta, "lastCommentAt", tk.now)
           byws == [metaByWs EXCEPT ![c] = tk.meta]
           s == Get(objs[c][tk.meta], "lastState")
           text == generateSimulatedCommentary(s, roll)
           called == [genArg EXCEPT ![c] =
                        [has |-> TRUE, used |-> s,
                         current |-> IF metaByWs[c] = "none" THEN s
                                     ELSE Get(metaObj[c][metaByWs[c]], "lastState")]]
       IN  /\ metaObj' = objs
           /\ metaByWs' = byws
           /\ IF ~Head(redisQ).ok
              THEN /\ out' = Send(out, c, <<CommentaryEvent(Lit("[commentary rate-limited]"), "rate-limited", t)>>)
                   /\ sendsAfterClose' = SendAfterClose(c, "commentary", <<t>>)
                   /\ Continue(t, tk.now, c + 1, objs, byws, Tail(redisQ), fail)
                   /\ UNCHANGED <<genLog, genArg>>
              ELSE IF PromptThrows(s)
              THEN /\ ticks' = [ticks EXCEPT ![t] = [pc |-> "threw"]]
                   /\ redisQ' = Tail(redisQ)
                   /\ UNCHANGED <<out, redis, granted, genLog, genArg, invoked, sendsAfterClose>>
              ELSE IF SIMULATED_MODE
              THEN /\ genLog' = LogCall(c)
                   /\ genArg' = called
                   /\ out' = Send(out, c, RouteSimulated(text, t))
                   /\ sendsAfterClose' = SendAfterClose(c, "commentary", RouteSimulated(text, t))
                   /\ Continue(t, tk.now, c + 1, objs, byws, Tail(redisQ), fail)
              ELSE /\ genLog' = LogCall(c)
                   /\ genArg' = called
                   /\ ticks' = [ticks EXCEPT ![t].pc = "create"]
                   /\ redisQ' = Tail(redisQ)
                   /\ UNCHANGED <<out, redis, granted, invoked, sendsAfterClose>>
    /\ UNCHANGED <<clock, SIMULATED_MODE, ws, nextTickAt, nFrames, coach, nextCoachAt,
                   lastAdmitted>>

\* await openaiClient.chat.completions.create resolves with the stream
CreateResolve(t) ==
    /\ ticks[t].pc = "create"
    /\ ticks' = [ticks EXCEPT ![t].pc = "stream"]
    /\ UNCHANGED <<sendsAfterClose, clock, SIMULATED_MODE, ws, metaByWs, metaObj, redis, redisQ, out,
                   nextTickAt, nFrames, genLog, granted, coach, nextCoachAt,
                   lastAdmitted, genArg, invoked>>

\* the stream yields a part whose choice carries textChunk
StreamPart(t, textChunk) ==
    /\ ticks[t].pc = "stream"
    /\ ticks[t].parts < MaxChunks
    /\ ticks' = [ticks EXCEPT ![t].parts = @ + 1,
                              ![t].aggregated = @ \o textChunk]
    /\ out' = IF textChunk # << >> THEN Send(out, ticks[t].ws, <<ChunkEvent(textChunk, t)>>) ELSE out
    /\ sendsAfterClose' = SendAfterClose(ticks[t].ws, "commentary", textChunk)
    /\ UNCHANGED <<clock, SIMULATED_MODE, ws, metaByWs, metaObj, redis, redisQ,
                   nextTickAt, nFrames, genLog, granted, coach, nextCoachAt,
                   lastAdmitted, genArg, invoked>>

\* the stream ends: directive check, final event, next client
StreamEnd(t, fail) ==
    /\ ticks[t].pc = "stream"
    /\ out' = Send(out, ticks[t].ws, RouteStreamed(ticks[t].aggregated, t))
    /\ sendsAfterClose' = SendAfterClose(ticks[t].ws, "commentary", RouteStreamed(ticks[t].aggregated, t))
    /\ Continue(t, ticks[t].now, ticks[t].ws + 1, metaObj, metaByWs, redisQ, fail)
    /\ UNCHANGED <<clock, SIMULATED_MODE, ws, metaByWs, metaObj, nextTickAt, nFrames,
                   genLog, coach, nextCoachAt, lastAdmitted, genArg>>

\* a catch block that only logs
CaughtSilently(t) == << >>

\* the catch block of the commentary worker: one placeholder event
Caught(t) == <<CommentaryEvent(Lit("[commentary error]"), "error", t)>>

\* create() rejects or the stream throws: the catch block, next client
ProviderError(t, fail) ==
    /\ ticks[t].pc \in {"create", "stream"}
    /\ out' = Send(out, ticks[t].ws, Caught(t))
    /\ sendsAfterClose' = SendAfterClose(ticks[t].ws, "commentary", Caught(t))
    /\ Continue(t, ticks[t].now, ticks[t].ws + 1, metaObj, metaByWs, redisQ, fail)
    /\ UNCHANGED <<clock, SIMULATED_MODE, ws, metaByWs, metaObj, nextTickAt, nFrames,
                   genLog, coach, nextCoachAt, lastAdmitted, genArg>>

\* ------------------------------------------------------------------------
\* Coach worker (server.js:233-240, 339-396)
\* ------------------------------------------------------------------------
tips == <<"Keep paddle centered", "Anticipate opponent returns", "Aim slightly ahead">>

generateSimulatedCoachTip(state, roll) == <<Word(tips[roll])>>

CoachEvent(text, kind, t) == [type |-> "coach", text |-> text, kind |-> kind, by |-> t]

\* a coach worker with a limiter of its own
CoachLimiterOwn == stateLimiter

\* the limiter the coach worker consumes from
CoachLimiter == commentaryLimiter

\* gates that do not look at the toggle
EligibleCoachAnyone(now, c, objs, byws) ==
    /\ ws[c].readyState = "OPEN"
    /\ byws[c] # "none"
    /\ Truthy(Get(objs[c][byws[c]], "lastState"))
    /\ ~(now - NumOr0(Get(objs[c][byws[c]], "lastCoachAt")) < COACH_INTERVAL_MS)

\* the gates of one iteration of the coach loop
EligibleCoach(now, c, objs, byws) ==
    /\ ws[c].readyState = "OPEN"
    /\ byws[c] # "none"
    /\ Truthy(Get(objs[c][byws[c]], "coachEnabled"))
    /\ Truthy(Get(objs[c][byws[c]], "lastState"))
    /\ ~(now - NumOr0(Get(objs[c][byws[c]], "lastCoachAt")) < COACH_INTERVAL_MS)

NextEligibleCoach(now, from, objs, byws) ==
    LET S == {c \in Conns : c >= from /\ EligibleCoach(now, c, objs, byws)}
    IN  IF S = {} THEN 0 ELSE CHOOSE c \in S : \A b \in S : c <= b

\* the coach loop runs on from client `from` until it awaits consume for a
\* client or runs out of clients
CoachContinue(t, now, from, objs, byws, q, fail) ==
    LET c == NextEligibleCoach(now, from, objs, byws)
        r == Consume(redis, CoachLimiter, userKey(c), fail)
    IN  IF c = 0
        THEN /\ coach' = [coach EXCEPT ![t] = [pc |-> "done"]]
             /\ redisQ' = q
             /\ UNCHANGED <<redis, granted, invoked>>
        ELSE /\ coach' = [coach EXCEPT ![t] =
                    [pc |-> "consume", now |-> now, ws |-> c, meta |-> byws[c]]]
             /\ redisQ' = Append(q, [kind |-> "coach", tick |-> t, ok |-> r.ok])
             /\ redis' = r.store
             /\ granted' = Grant(granted, CoachLimiter, Identity(c), r.exp, r.ok, fail)
             /\ invoked' = Admit(invoked, c, r.store, r.ok, fail)

\* setInterval fires the coach worker
CoachStart(t, fail) ==
    /\ coach[t].pc = "idle"
    /\ \A u \in TickIds : u < t => coach[u].pc # "idle"
    /\ clock >= nextCoachAt
    /\ nextCoachAt' = clock + COACH_INTERVAL_MS
    /\ CoachContinue(t, clock, 1, metaObj, metaByWs, redisQ, fail)
    /\ UNCHANGED <<sendsAfterClose, clock, SIMULATED_MODE, ws, metaByWs, metaObj, out, nFrames, genLog,
                   ticks, nextTickAt, lastAdmitted, genArg>>

\* the coach worker resumes after await commentaryLimiter.consume
CoachReply(roll, fail) ==
    /\ redisQ # << >>
    /\ Head(redisQ).kind = "coach"
    /\ LET t == Head(redisQ).tick
           tk == coach[t]
           c == tk.ws
           objs == Stamp(metaObj, c, tk.meta, "lastCoachAt", tk.now)
           byws == [metaByWs EXCEPT ![c] = tk.meta]
           s == Get(objs[c][tk.meta], "lastState")
           called == [genArg EXCEPT ![c] =
                        [has |-> TRUE, used |-> s,
                         current |-> IF metaByWs[c] = "none" THEN s
                                     ELSE Get(metaObj[c][metaByWs[c]], "lastState")]]
       IN  /\ metaObj' = objs
           /\ metaByWs' = byws
           /\ IF ~Head(redisQ).ok
              THEN /\ out' = Send(out, c, <<CoachEvent(Lit("[coach rate-limited]"), "rate-limited", t)>>)
                   /\ sendsAfterClose' = SendAfterClose(c, "coach", <<t>>)
                   /\ CoachContinue(t, tk.now, c + 1, objs, byws, Tail(redisQ), fail)
                   /\ UNCHANGED genArg
              ELSE IF PromptThrows(s)
              THEN /\ coach' = [coach EXCEPT ![t] = [pc |-> "threw"]]
                   /\ redisQ' = Tail(redisQ)
                   /\ UNCHANGED <<out, redis, granted, genArg, invoked, sendsAfterClose>>
              ELSE IF SIMULATED_MODE
              THEN /\ genArg' = called
                   /\ out' = Send(out, c, <<CoachEvent(generateSimulatedCoachTip(s, roll), "tip", t)>>)
                   /\ sendsAfterClose' = SendAfterClose(c, "coach", <<t>>)
                   /\ CoachContinue(t, tk.now, c + 1, objs, byws, Tail(redisQ), fail)
              ELSE /\ genArg' = called
                   /\ coach' = [coach EXCEPT ![t].pc = "create"]
                   /\ redisQ' = Tail(redisQ)
                   /\ UNCHANGED <<out, redis, granted, invoked, sendsAfterClose>>
    /\ UNCHANGED <<clock, SIMULATED_MODE, ws, nextTickAt, nFrames, ticks, nextCoachAt,
                   lastAdmitted, genLog>>

\* the answers of the provider to the coach request: a message with content,
\* or no choice at all
CoachResponses == {[content |-> <<SP, Word("Stay centered"), SP>>], [none |-> TRUE]}

\* resp?.choices?.[0]?.message?.content ?? resp?.choices?.[0]?.text ?? '[coach error]'
coachText(resp) == IF "content" \in DOMAIN resp THEN resp.content ELSE Lit("[coach error]")

\* a catch block of the coach worker that only logs
CoachCaughtSilently(t) == << >>

\* the catch block of the coach worker: one placeholder event
CoachCaught(t) == <<CoachEvent(Lit("[coach error]"), "error", t)>>

\* await openaiClient.chat.completions.create resolves with the response
CoachResolve(t, resp, fail) ==
    /\ coach[t].pc = "create"
    /\ out' = Send(out, coach[t].ws,
                   <<CoachEvent(Trim(coachText(resp)),
                                IF "content" \in DOMAIN resp THEN "tip" ELSE "fallback", t)>>)
    /\ sendsAfterClose' = SendAfterClose(coach[t].ws, "coach", <<t>>)
    /\ CoachContinue(t, coach[t].now, coach[t].ws + 1, metaObj, metaByWs, redisQ, fail)
    /\ UNCHANGED <<clock, SIMULATED_MODE, ws, metaByWs, metaObj, nextTickAt, nFrames,
                   genLog, ticks, nextCoachAt, lastAdmitted, genArg>>

\* create() rejects: the catch block, next client
CoachError(t, fail) ==
    /\ coach[t].pc = "create"
    /\ out' = Send(out, coach[t].ws, CoachCaught(t))
    /\ sendsAfterClose' = SendAfterClose(coach[t].ws, "coach", CoachCaught(t))
    /\ CoachContinue(t, coach[t].now, coach[t].ws + 1, metaObj, metaByWs, redisQ, fail)
    /\ UNCHANGED <<clock, SIMULATED_MODE, ws, metaByWs, metaObj, nextTickAt, nFrames,
                   genLog, ticks, nextCoachAt, lastAdmitted, genArg>>

\* the steps of the coach worker, with the inputs drawn from the given sets
CoachOver(fails, rolls, resps) ==
    \/ \E t \in TickIds, fail \in fails : CoachStart(t, fail)
    \/ \E roll \in rolls, fail \in fails : CoachReply(roll, fail)
    \/ \E t \in TickIds, resp \in resps, fail \in fails : CoachResolve(t, resp, fail)
    \/ \E t \in TickIds, fail \in fails : CoachError(t, fail)

\* one step of the server, with the inputs drawn from the given sets
NextOver(reqs, frames, fails, rolls, chunks) ==
    \/ Advance
    \/ \E c \in Conns, req \in reqs : Upgrade(c, req)
    \/ \E c \in Conns : Close(c)
    \/ \E c \in Conns, frame \in frames, fail \in fails :
          nFrames < MaxFrames /\ Message(c, frame, fail)
    \/ FrameReply
    \/ \E t \in TickIds, fail \in fails : TickStart(t, fail)
    \/ \E roll \in rolls, fail \in fails : TickReply(roll, fail)
    \/ \E t \in TickIds : CreateResolve(t)
    \/ \E t \in TickIds, textChunk \in chunks : StreamPart(t, textChunk)
    \/ \E t \in TickIds, fail \in fails : StreamEnd(t, fail)
    \/ \E t \in TickIds, fail \in fails : ProviderError(t, fail)

Next ==
    \/ NextOver(Requests, Frames, BOOLEAN, Rolls, Chunks)
    \/ CoachOver(BOOLEAN, 1..Len(tips), CoachResponses)

Spec == Init /\ [][Next]_vars

\* ------------------------------------------------------------------------
\* Specifications with the inputs narrowed
\* ------------------------------------------------------------------------
R_u1 == [header |-> <<"pong-proto.v1", "jwt-u1">>, query |-> ""]
R_anon == [header |-> <<"", "pong-proto.v1">>, query |-> "jwt-nosub"]
Phrase1 == [phrase |-> 1, adjust |-> FALSE, down |-> FALSE]

\* the server in simulated mode: the provider is never called
InitSim == Init /\ SIMULATED_MODE
NextSimOver(reqs, frames, fails, rolls) ==
    \/ Advance
    \/ \E c \in Conns, req \in reqs : Upgrade(c, req)
    \/ \E c \in Conns : Close(c)
    \/ \E c \in Conns, frame \in frames, fail \in fails :
          nFrames < MaxFrames /\ Message(c, frame, fail)
    \/ FrameReply
    \/ \E t \in TickIds, fail \in fails : TickStart(t, fail)
    \/ \E roll \in rolls, fail \in fails : TickReply(roll, fail)

\* every upgrade request, both state encodings, a store that may fail
NextSim == NextSimOver(Requests, {BinState(S_good), TextState(S_good)}, BOOLEAN, {Phrase1})
SpecSim == InitSim /\ [][NextSim]_vars

\* every snapshot and both branches of the simulated generator
NextSnap ==
    NextSimOver({R_u1}, {BinState(x) : x \in Payloads}, {FALSE},
                {Phrase1, [Phrase1 EXCEPT !.adjust = TRUE],
                 [Phrase1 EXCEPT !.adjust = TRUE, !.down = TRUE]})
SpecSnap == InitSim /\ [][NextSnap]_vars

\* every snapshot in both encodings, a store that may fail
NextEncodings ==
    NextSimOver({R_u1}, {BinState(x) : x \in Payloads} \cup {TextState(x) : x \in Payloads},
                BOOLEAN, {Phrase1})
SpecEncodings == InitSim /\ [][NextEncodings]_vars

\* every frame a client can send, one state frame among them
NextFrames ==
    NextSimOver({R_u1}, {BinState(S_good), Ping} \cup CoachEnableFrames
                        \cup UndecodableFrames \cup UnknownFrames,
                {FALSE}, {Phrase1})
SpecFrames == InitSim /\ [][NextFrames]_vars

\* the coach worker next to the commentary worker, simulated mode
CoachSimOver(fails, rolls) ==
    \/ \E t \in TickIds, fail \in fails : CoachStart(t, fail)
    \/ \E roll \in rolls, fail \in fails : CoachReply(roll, fail)
NextCoach ==
    \/ NextSimOver({R_u1}, {BinState(S_good), CoachEnable(JsBool(TRUE)), CoachEnable(JsBool(FALSE))},
                   BOOLEAN, {Phrase1})
    \/ CoachSimOver(BOOLEAN, {1})
SpecCoach == InitSim /\ [][NextCoach]_vars

\* the server with the provider, one identity
InitProvider == Init /\ ~SIMULATED_MODE
NextProvider ==
    NextOver({R_u1}, {BinState(S_good)}, {FALSE}, {Phrase1}, {<<SP, Word("shot")>>})
SpecProvider == InitProvider /\ [][NextProvider]_vars

\* one identity that toggles the coach between coach ticks: one frame more,
\* no commentary worker
NextToggle ==
    \/ Advance
    \/ \E c \in Conns : Upgrade(c, R_u1)
    \/ \E c \in Conns, frame \in {BinState(S_good), Ping} \cup CoachEnableFrames :
          nFrames < MaxFrames + 1 /\ Message(c, frame, FALSE)
    \/ FrameReply
    \/ CoachSimOver({FALSE}, {1})
SpecToggle == InitSim /\ [][NextToggle]_vars

\* both workers with the provider, one identity
NextCoachProvider ==
    \/ NextOver({R_u1}, {BinState(S_good), CoachEnable(JsBool(TRUE))}, {FALSE},
                {Phrase1}, {<<SP, Word("shot")>>})
    \/ CoachOver({FALSE}, {1}, CoachResponses)
SpecCoachProvider == InitProvider /\ [][NextCoachProvider]_vars

\* the server with the provider and two sockets of different identities
\* that stay open; the timers keep firing, time passes and the store
\* answers every consume, while nothing makes the provider answer
NextHung ==
    \/ Advance
    \/ Upgrade(1, R_u1)
    \/ Upgrade(2, R_anon)
    \/ \E c \in Conns : nFrames < MaxFrames /\ Message(c, BinState(S_good), FALSE)
    \/ FrameReply
    \/ \E t \in TickIds : TickStart(t, FALSE)
    \/ TickReply(Phrase1, FALSE)
    \/ \E t \in TickIds : CreateResolve(t)
    \/ \E t \in TickIds : StreamEnd(t, FALSE)
    \/ \E t \in TickIds : ProviderError(t, FALSE)

\* setInterval is due to fire the commentary worker for the t-th time
TickDue(t) ==
    /\ ticks[t].pc = "idle"
    /\ \A u \in TickIds : u < t => ticks[u].pc # "idle"
    /\ clock >= nextTickAt

\* TickDue(t) is the enabling condition of TickStart(t, FALSE), which ends
\* it: a timer that keeps firing is one that is not due forever
SpecHung ==
    /\ InitProvider /\ [][NextHung]_vars
    /\ WF_vars(Advance)
    /\ WF_vars(TickReply(Phrase1, FALSE))
    /\ WF_vars(FrameReply)
    /\ \A t \in TickIds : []<>~TickDue(t)

\* ------------------------------------------------------------------------
\* Properties
\* ------------------------------------------------------------------------

\* C1: for every session, two consecutive generator invocations by the
\* commentary worker are at least COMMENTARY_INTERVAL_MS apart in actual time.
C1_MinGap ==
    \A c \in Conns :
        Len(genLog[c]) = 2 => genLog[c][2] - genLog[c][1] >= COMMENTARY_INTERVAL_MS

\* a commentary generation of tick t for socket c is in flight: admission
\* awaited, or the provider call or stream not yet ended
InFlight(t, c) == ticks[t].pc \in {"consume", "create", "stream"} /\ ticks[t].ws = c

\* C2: at most one commentary generation per session is in flight at any time.
C2_OneInFlight ==
    \A c \in Conns : Cardinality({t \in TickIds : InFlight(t, c)}) <= 1

Limiters == {stateLimiter, commentaryLimiter}
Identities == {"u1", "anon"}

\* C3: in one rate-limit window, one identity is admitted at most `points`
\* times per category, over all the sockets that share the identity; a call
\* made after that, in the same window, is rejected.
C3_Budget ==
    \A lim \in Limiters, id \in Identities :
        LET g == granted[lim.keyPrefix][id]
        IN  /\ g.admitted <= lim.points
            /\ g.calls <= lim.points => g.admitted = g.calls
            /\ g.calls > lim.points => ~g.last

\* two sockets of identity u1: the frame of the first used the budget, the
\* frame of the second was rejected by the count
C3_Witness ==
    /\ \A c \in {1, 2} : ws[c].readyState = "OPEN" /\ Identity(c) = "u1"
    /\ granted["rl_state"]["u1"].admitted = STATE_SEND_LIMIT_PER_SECOND
    /\ redis["rl_state"]["u1"].n = STATE_SEND_LIMIT_PER_SECOND + 1
    /\ Get(metaObj[1].orig, "lastState") = S_good
    /\ \E k \in DOMAIN out[2] : out[2][k] = ErrorEvent("state rate limit exceeded")

\* the handler of a state frame resumes with a rejection / an admission
RejectedFrameStep ==
    /\ redisQ # << >> /\ Head(redisQ).kind = "frame" /\ ~Head(redisQ).ok
    /\ redisQ' = Tail(redisQ)
AdmittedFrameStep ==
    /\ redisQ # << >> /\ Head(redisQ).kind = "frame" /\ Head(redisQ).ok
    /\ redisQ' = Tail(redisQ)

Credential(req) ==
    IF Len(parseProtocols(req)) >= 2 THEN parseProtocols(req)[2] ELSE req.query
Authenticated(req) ==
    /\ Len(parseProtocols(req)) >= 1
    /\ parseProtocols(req)[1] = "pong-proto.v1"
    /\ Credential(req) \in {"jwt-u1", "jwt-nosub"}

\* C5: a socket is in metaByWs only if its upgrade request named
\* pong-proto.v1 first and carried a credential that verified; any other
\* request is refused, with no registry entry and no event.
C5_AuthenticatedOnly ==
    \A c \in Conns :
        /\ metaByWs[c] # "none" => Authenticated(ws[c].req)
        /\ ws[c].readyState \in {"OPEN", "CLOSED"} => Authenticated(ws[c].req)
        /\ (ws[c].readyState # "NONE" /\ ~Authenticated(ws[c].req)) =>
              /\ ws[c].readyState = "REFUSED"
              /\ metaByWs[c] = "none"
              /\ out[c] = << >>

\* one socket accepted on the query-parameter credential, one refused
C5_Witness ==
    \E c, d \in Conns :
        /\ ws[c].readyState = "OPEN" /\ metaByWs[c] = "orig"
        /\ Len(parseProtocols(ws[c].req)) = 1 /\ ws[c].req.query = "jwt-nosub"
        /\ ws[d].readyState = "REFUSED" /\ ws[d].req.query = "jwt-u1"

\* C6: after a socket's close event the registry holds no entry for it.
C6_NoEntryAfterClose ==
    \A c \in Conns : ws[c].readyState = "CLOSED" => metaByWs[c] = "none"

\* C7: no snapshot makes prompt construction raise and abort a tick.
C7_TickNeverAborts ==
    \A t \in TickIds : ticks[t].pc # "threw"

\* tick t waits for the provider while socket c, later in its loop, passes
\* the gates
WaitsWhileEligible(t, c) ==
    /\ ticks[t].pc \in {"create", "stream"}
    /\ c > ticks[t].ws
    /\ Eligible(ticks[t].now, c, metaObj, metaByWs)

\* a step of the worker that does not come from the provider
WorkerStep ==
    \/ \E t \in TickIds, fail \in BOOLEAN : TickStart(t, fail)
    \/ \E roll \in {Phrase1}, fail \in BOOLEAN : TickReply(roll, fail)

\* C8: a pending provider call for one session does not block the other
\* sessions of the tick: while it is pending, the tick can go on to a later
\* eligible session without an answer from the provider.
C8_NotBlocked ==
    \A t \in TickIds, c \in Conns :
        WaitsWhileEligible(t, c) => ENABLED (WorkerStep /\ ticks'[t] # ticks[t])

\* the commentary and commentary_chunk events delivered to socket c
CommentarySeq(c) ==
    SelectSeq(out[c], LAMBDA e : e.type \in {"commentary", "commentary_chunk"})

RECURSIVE ConcatTexts(_, _, _)
ConcatTexts(s, i, j) == IF i > j THEN << >> ELSE s[i].text \o ConcatTexts(s, i + 1, j)

\* C9: the n chunks of a stream that ends normally with plain text arrive as
\* n commentary_chunk events followed at once by the one commentary event
\* with the trimmed concatenation, no other commentary or chunk event of the
\* session between them.
C9_ChunksThenFinal ==
    \A c \in Conns :
        LET s == CommentarySeq(c)
        IN  \A k \in DOMAIN s :
                (s[k].type = "commentary" /\ s[k].kind = "plain") =>
                    LET t == s[k].by
                        n == Cardinality({i \in DOMAIN s :
                                 s[i].type = "commentary_chunk" /\ s[i].by = t})
                    IN  /\ k > n
                        /\ \A i \in (k - n)..(k - 1) :
                               s[i].type = "commentary_chunk" /\ s[i].by = t
                        /\ s[k].text = Trim(ConcatTexts(s, k - n, k - 1))
                        /\ Cardinality({i \in DOMAIN s :
                               s[i].type = "commentary" /\ s[i].by = t}) = 1

\* a text that is exactly a well-formed aiAdjust object with a numeric aiSpeed
WellFormedDirective(text) ==
    /\ JSONparse(text).ok
    /\ JSONparse(text).v.t = "object"
    /\ Get(JSONparse(text).v, "type") = JsStr("aiAdjust")
    /\ Get(JSONparse(text).v, "aiSpeed").t = "number"

\* C10: exactly the final texts that are a well-formed aiAdjust object with
\* a numeric aiSpeed give one control event with that aiSpeed followed by
\* the confirmation; any other final text gives no control event and one
\* plain commentary event.
C10_DirectiveRoundTrip ==
    \A c \in Conns : \A k \in DOMAIN out[c] :
        LET e == out[c][k]
        IN  /\ e.type = "control" =>
                /\ WellFormedDirective(e.final)
                /\ Get(e.control, "aiSpeed") = Get(JSONparse(e.final).v, "aiSpeed")
                /\ k < Len(out[c])
                /\ out[c][k + 1].type = "commentary"
                /\ out[c][k + 1].kind = "confirm"
                /\ out[c][k + 1].by = e.by
            /\ (e.type = "commentary" /\ e.kind = "plain") =>
                ~WellFormedDirective(e.text)
            /\ (e.type = "commentary" /\ e.kind = "confirm") =>
                k > 1 /\ out[c][k - 1].type = "control" /\ out[c][k - 1].by = e.by

\* the step is the handler of `frame` on socket c and has the effect of
\* sending the events evs to c and nothing else
OnlySends(c, evs) ==
    /\ out' = [out EXCEPT ![c] = @ \o evs]
    /\ metaObj' = metaObj /\ metaByWs' = metaByWs
    /\ redis' = redis /\ redisQ' = redisQ

\* C11: a frame that does not decode gives exactly one error event
\* 'invalid message', a frame that decodes to no command gives exactly one
\* error event 'unknown message type'; neither changes a session record or
\* a limiter counter, nor leaves a handler pending.
C11_BadFrameOnlyErrors ==
    [][\A c \in Conns, fail \in BOOLEAN :
          /\ \A frame \in UndecodableFrames :
                Message(c, frame, fail) => OnlySends(c, <<ErrorEvent("invalid message")>>)
          /\ \A frame \in UnknownFrames :
                Message(c, frame, fail) => OnlySends(c, <<ErrorEvent("unknown message type")>>)]_vars

\* a socket that sent one frame of each sort and still has its first record
C11_Witness ==
    \E c \in Conns :
        /\ out[c] = <<WelcomeEvent(ws[c].user), ErrorEvent("invalid message"),
                      ErrorEvent("unknown message type")>>
        /\ metaByWs[c] = "orig" /\ metaObj[c].orig = NewMeta
        /\ redis["rl_state"]["u1"] = NoKey

\* the events of one worker: the commentary worker sends commentary,
\* commentary_chunk and control events, the coach worker coach events
Family(e) ==
    IF e.type \in {"commentary", "commentary_chunk", "control"} THEN "commentary"
    ELSE IF e.type = "coach" THEN "coach" ELSE "session"

\* on socket c, an error placeholder is the last event of its invocation
ErrorIsTerminal(c) ==
    \A k \in DOMAIN out[c] :
        (Family(out[c][k]) # "session" /\ "kind" \in DOMAIN out[c][k]
            /\ out[c][k].kind = "error") =>
            \A j \in DOMAIN out[c] :
                (j > k /\ Family(out[c][j]) = Family(out[c][k])) => out[c][j].by # out[c][k].by

\* the commentary tick t goes on after socket c: to the next socket that
\* passes the gates if there is one, to its end if not
GoesOn(t, c) ==
    LET d == NextEligible(ticks[t].now, c + 1, metaObj, metaByWs)
    IN  /\ ticks'[t].pc = IF d = 0 THEN "done" ELSE "consume"
        /\ d # 0 => ticks'[t].ws = d
        /\ \A u \in TickIds \ {t} : ticks'[u] = ticks[u]
        /\ coach' = coach /\ nextTickAt' = nextTickAt /\ nextCoachAt' = nextCoachAt

\* the same for the coach tick t
CoachGoesOn(t, c) ==
    LET d == NextEligibleCoach(coach[t].now, c + 1, metaObj, metaByWs)
    IN  /\ coach'[t].pc = IF d = 0 THEN "done" ELSE "consume"
        /\ d # 0 => coach'[t].ws = d
        /\ \A u \in TickIds \ {t} : coach'[u] = coach[u]
        /\ ticks' = ticks /\ nextTickAt' = nextTickAt /\ nextCoachAt' = nextCoachAt

\* C12: when the provider call of an invocation fails, at the request or
\* in the stream, the session gets exactly one placeholder event
\* ('[commentary error]' or '[coach error]') and nothing more from that
\* invocation; the tick goes on with the remaining sessions, and the other
\* ticks and the timers are not touched.
C12_FailureIsLocal ==
    /\ [](\A c \in Conns : ErrorIsTerminal(c))
    /\ [][\A t \in TickIds, fail \in BOOLEAN :
            /\ ProviderError(t, fail) =>
                  /\ out' = Send(out, ticks[t].ws,
                                 <<CommentaryEvent(Lit("[commentary error]"), "error", t)>>)
                  /\ GoesOn(t, ticks[t].ws)
            /\ CoachError(t, fail) =>
                  /\ out' = Send(out, coach[t].ws,
                                 <<CoachEvent(Lit("[coach error]"), "error", t)>>)
                  /\ CoachGoesOn(t, coach[t].ws)]_vars

\* the stream of tick 1 failed for socket 1 after a chunk, the same tick
\* then commentated socket 2, and a later tick ran
C12_Witness ==
    /\ \E k \in DOMAIN out[1] :
          /\ k > 1 /\ out[1][k - 1] = ChunkEvent(<<SP, Word("shot")>>, 1)
          /\ out[1][k] = CommentaryEvent(Lit("[commentary error]"), "error", 1)
    /\ \E k \in DOMAIN out[2] :
          out[2][k].type = "commentary" /\ out[2][k].kind = "plain" /\ out[2][k].by = 1
    /\ ticks[2].pc # "idle"

\* a provider call for another session is pending while socket c is open,
\* has a snapshot, has not been commentated yet and is past its interval,
\* and a later tick is still to fire
WaitsBehindHung(c) ==
    /\ \E t \in TickIds : ticks[t].pc \in {"create", "stream"} /\ ticks[t].ws # c
    /\ Eligible(clock, c, metaObj, metaByWs)
    /\ genLog[c] = << >>
    /\ \E u \in TickIds : ticks[u].pc = "idle"
    /\ nextTickAt <= MaxClock

\* the generator was invoked for socket c, or c was refused by admission,
\* or c is no longer open
ServedOrGone(c) ==
    \/ genLog[c] # << >>
    \/ ws[c].readyState # "OPEN"
    \/ \E k \in DOMAIN out[c] : out[c][k].type = "commentary" /\ out[c][k].kind = "rate-limited"

PendingFrames(c) ==
    {i \in DOMAIN redisQ : redisQ[i].kind = "frame" /\ redisQ[i].ws = c}

\* C14: the handler of a later frame of a connection does not start while
\* the handler of an earlier frame of that connection is suspended on its
\* admission: at most one frame handler per connection is pending.
C14_OneFrameAtATime ==
    \A c \in Conns : Cardinality(PendingFrames(c)) <= 1

\* the lastState of the session record of socket c
LastState(c) == Get(metaObj[c][metaByWs[c]], "lastState")

\* C15: once no state-frame handler of a connection is pending, the
\* session's lastState is the payload of the last admitted state frame in
\* arrival order; and the snapshot a worker hands to the generator is the
\* session's lastState at that moment.
C15_LastSnapshotWins ==
    \A c \in Conns :
        /\ (PendingFrames(c) = {} /\ lastAdmitted[c].has /\ metaByWs[c] # "none") =>
               LastState(c) = lastAdmitted[c].v
        /\ genArg[c].has => genArg[c].used = genArg[c].current

\* C16: commentary and coach invocations draw from one counter per identity:
\* in one window of the commentary limiter the admitted commentary and coach
\* invocations of an identity are together at most
\* COMMENTARY_LIMIT_PER_MINUTE, and the handler of a frame never consumes
\* from that counter.
C16_SharedBudget ==
    /\ [](\A id \in Identities : invoked[id].n <= COMMENTARY_LIMIT_PER_MINUTE)
    /\ [][nFrames' # nFrames =>
            (redis'["rl_commentary"] = redis["rl_commentary"] /\ invoked' = invoked)]_vars

\* identity u1 had a commentary and a coach tip in one window, which used
\* the budget up: the next invocation was refused; its state frame was
\* counted on the other limiter
C16_Witness ==
    /\ invoked["u1"].n = COMMENTARY_LIMIT_PER_MINUTE
    /\ redis["rl_commentary"]["u1"].n = COMMENTARY_LIMIT_PER_MINUTE + 1
    /\ redis["rl_state"]["u1"].n = 1
    /\ \E c \in Conns :
          /\ \E k \in DOMAIN out[c] : out[c][k].type = "commentary" /\ out[c][k].kind = "plain"
          /\ \E k \in DOMAIN out[c] : out[c][k].type = "coach" /\ out[c][k].kind = "tip"
          /\ \E k \in DOMAIN out[c] :
                out[c][k].type = "commentary" /\ out[c][k].kind = "rate-limited"

\* the worker whose consume is first in line resumes on a rejection
RejectedTickStep ==
    /\ redisQ # << >> /\ Head(redisQ).kind = "tick" /\ ~Head(redisQ).ok
    /\ ticks'[Head(redisQ).tick] # ticks[Head(redisQ).tick]
RejectedCoachStep ==
    /\ redisQ # << >> /\ Head(redisQ).kind = "coach" /\ ~Head(redisQ).ok
    /\ coach'[Head(redisQ).tick] # coach[Head(redisQ).tick]

\* C17: when admission rejects a session in a tick, the worker sends the
\* session exactly one rate-limited placeholder, sets the timestamp of its
\* loop for the session to the time of the tick, does not call the
\* generator, and goes on with the next session.
C17_RejectionPlaceholder ==
    [][ /\ RejectedTickStep =>
            LET t == Head(redisQ).tick
                c == ticks[t].ws
            IN  /\ out' = Send(out, c, <<CommentaryEvent(Lit("[commentary rate-limited]"),
                                                         "rate-limited", t)>>)
                /\ metaByWs'[c] = ticks[t].meta
                /\ Get(metaObj'[c][metaByWs'[c]], "lastCommentAt") = JsNum(ticks[t].now)
                /\ genLog' = genLog /\ genArg' = genArg
                /\ GoesOn(t, c)
        /\ RejectedCoachStep =>
            LET t == Head(redisQ).tick
                c == coach[t].ws
            IN  /\ out' = Send(out, c, <<CoachEvent(Lit("[coach rate-limited]"),
                                                    "rate-limited", t)>>)
                /\ metaByWs'[c] = coach[t].meta
                /\ Get(metaObj'[c][metaByWs'[c]], "lastCoachAt") = JsNum(coach[t].now)
                /\ genLog' = genLog /\ genArg' = genArg
                /\ CoachGoesOn(t, c) ]_vars

\* a socket that was refused by both loops: one placeholder of each, both
\* timestamps at the time of the ticks, and no coach tip
C17_Witness ==
    \E c \in Conns :
        /\ metaByWs[c] = "orig"
        /\ \E k \in DOMAIN out[c] :
              out[c][k].type = "commentary" /\ out[c][k].kind = "rate-limited"
        /\ \E k \in DOMAIN out[c] :
              out[c][k].type = "coach" /\ out[c][k].kind = "rate-limited"
        /\ \A k \in DOMAIN out[c] : out[c][k].type = "coach" => out[c][k].kind = "rate-limited"
        /\ Get(metaObj[c].orig, "lastCoachAt") = JsNum(nextCoachAt - COACH_INTERVAL_MS)
        /\ Get(metaObj[c].orig, "lastCommentAt").v > 0

\* the coachEnabled of the session record of socket c, in the state reached
CoachOnAfter(c) ==
    metaByWs'[c] # "none" /\ Truthy(Get(metaObj'[c][metaByWs'[c]], "coachEnabled"))
CoachOn(c) ==
    metaByWs[c] # "none" /\ Truthy(Get(metaObj[c][metaByWs[c]], "coachEnabled"))

\* C18: a coach tick consumes an admission point and sends coach events
\* only for sessions whose coachEnabled is true when it examines them;
\* coachEnabled is false in every new session record and is set to true
\* only by a frame of the client, so a session that never enabled the coach
\* never gets a coach event.
C18_CoachOnlyWhenEnabled ==
    /\ [](\A c \in Conns : \A k \in DOMAIN out[c] :
            out[c][k].type = "coach" =>
                \E j \in 1..(k - 1) :
                    out[c][j] = [type |-> "coach_status", enabled |-> JsBool(TRUE)])
    /\ [][ /\ \A t \in TickIds :
                (coach'[t] # coach[t] /\ coach'[t].pc = "consume") => CoachOnAfter(coach'[t].ws)
           /\ (coach' # coach /\ redis' # redis) =>
                \E t \in TickIds :
                    coach'[t] # coach[t] /\ coach'[t].pc = "consume"
           /\ \A c \in Conns :
                /\ (ws[c].readyState = "NONE" /\ metaByWs'[c] # "none") =>
                      Get(metaObj'[c][metaByWs'[c]], "coachEnabled") = JsBool(FALSE)
                /\ \A ref \in {"orig", "fresh"} :
                      (/\ ~Truthy(Get(metaObj[c][ref], "coachEnabled"))
                       /\ Truthy(Get(metaObj'[c][ref], "coachEnabled"))) =>
                          nFrames' # nFrames ]_vars

\* a coach tick ran to its end over an open session with a snapshot whose
\* coach is off, long after lastCoachAt: no coach event, no point consumed
C18_Witness ==
    \E c \in Conns :
        /\ coach[1].pc = "done"
        /\ ws[c].readyState = "OPEN" /\ metaByWs[c] = "orig"
        /\ Truthy(LastState(c)) /\ ~CoachOn(c)
        /\ clock - Get(metaObj[c].orig, "lastCoachAt").v >= COACH_INTERVAL_MS
        /\ \E k \in DOMAIN out[c] :
              out[c][k] = [type |-> "coach_status", enabled |-> JsBool(FALSE)]
        /\ \A k \in DOMAIN out[c] : out[c][k].type # "coach"
        /\ redis["rl_commentary"]["u1"] = NoKey

\* the welcome event that carries the claims of the credential of socket c
WelcomeOf(c) == [type |-> "welcome", user |-> jwtVerify(Credential(ws[c].req)).user]

\* C19: on every accepted connection the first event sent is the welcome
\* event with the claims decoded from the credential; it is sent once, in
\* the step that creates the registry entry, before any other event.
C19_WelcomeFirst ==
    /\ [](\A c \in Conns :
            /\ ws[c].readyState \in {"OPEN", "CLOSED"} => out[c] # << >>
            /\ out[c] # << >> =>
                  /\ out[c][1] = WelcomeOf(c)
                  /\ \A k \in 2..Len(out[c]) : out[c][k].type # "welcome")
    /\ [][\A c \in Conns :
            (out[c] = << >> /\ out'[c] # << >>) =>
                /\ ws[c].readyState = "NONE" /\ ws'[c].readyState = "OPEN"
                /\ metaByWs[c] = "none" /\ metaByWs'[c] = "orig"
                /\ metaObj'[c].orig = NewMeta
                /\ Len(out'[c]) = 1]_vars

\* a connection accepted on a token without `sub`: the welcome carries the
\* role only and comes before the commentary of the session
C19_Witness ==
    \E c \in Conns :
        /\ Len(out[c]) >= 2
        /\ out[c][1] = [type |-> "welcome", user |-> [role |-> JsStr("tester")]]
        /\ out[c][2].type = "commentary"

\* the values of `enable` tried and their boolean coercion
Coercions ==
    {<<JsBool(TRUE), TRUE>>, <<JsBool(FALSE), FALSE>>, <<JsStr("yes"), TRUE>>,
     <<JsNum(0), FALSE>>, <<JsUndefined, FALSE>>}

\* C20: a coach_enable frame sets coachEnabled to the boolean coercion of
\* `enable` and lastCoachAt to 0, sends exactly one coach_status event with
\* the new value, consumes no admission point and leaves every other field
\* of the record as it was; a ping frame sends exactly one pong and changes
\* no field.
C20_ToggleAndPing ==
    [][\A c \in Conns :
          /\ \A p \in Coercions :
                Message(c, CoachEnable(p[1]), FALSE) =>
                    LET old == metaObj[c][metaByWs[c]]
                        new == metaObj'[c][metaByWs'[c]]
                    IN  /\ metaByWs'[c] = metaByWs[c]
                        /\ DOMAIN new = DOMAIN old
                        /\ new.coachEnabled = JsBool(p[2])
                        /\ new.lastCoachAt = JsNum(0)
                        /\ new.lastState = old.lastState
                        /\ new.lastCommentAt = old.lastCommentAt
                        /\ \A d \in Conns \ {c} : metaObj'[d] = metaObj[d]
                        /\ out' = [out EXCEPT ![c] =
                                     Append(@, [type |-> "coach_status", enabled |-> JsBool(p[2])])]
                        /\ redis' = redis /\ redisQ' = redisQ
          /\ Message(c, Ping, FALSE) => OnlySends(c, <<[type |-> "pong", ts |-> clock]>>)]_vars

\* a session that got a coach tip, so that lastCoachAt was the time of the
\* tick, and then sent coach_enable again: lastCoachAt is back to 0
C20_Witness ==
    \E c \in Conns :
        /\ metaByWs[c] = "orig"
        /\ \E k \in DOMAIN out[c] :
              /\ out[c][k].type = "coach" /\ out[c][k].kind = "tip"
              /\ k < Len(out[c]) /\ out[c][k + 1].type = "coach_status"
        /\ Get(metaObj[c].orig, "lastCoachAt") = JsNum(0)
        /\ Truthy(LastState(c))

\* C21: from every state, the step a binary frame ['state', X] takes is the
\* step the text frame {type:'state', state:X} takes (same admission-counter
\* change, same pending handler), and when the handler resumes it either
\* stores X as lastState with every other field of the record unchanged and
\* sends nothing (admitted), or changes no record and sends one error event
\* (rejected).
C21_EncodingsEquivalent ==
    [][/\ \A c \in Conns, x \in Payloads, fail \in BOOLEAN :
             Message(c, BinState(x), fail) <=> Message(c, TextState(x), fail)
       /\ (redisQ # << >> /\ Head(redisQ).kind = "frame" /\ redisQ' = Tail(redisQ)) =>
             LET h == Head(redisQ)
                 old == MetaVal(metaObj, metaByWs, h.ws)
                 new == MetaVal(metaObj', metaByWs', h.ws)
             IN  /\ h.state \in Payloads
                 /\ redis' = redis
                 /\ \A d \in Conns \ {h.ws} : out'[d] = out[d] /\ metaObj'[d] = metaObj[d]
                 /\ IF h.ok
                    THEN /\ out' = out
                         /\ DOMAIN new = DOMAIN old \cup {"lastState"}
                         /\ new.lastState = h.state
                         /\ \A f \in DOMAIN old \ {"lastState"} : new[f] = old[f]
                    ELSE /\ metaObj' = metaObj /\ metaByWs' = metaByWs
                         /\ out'[h.ws] = IF ws[h.ws].readyState = "OPEN"
                                         THEN Append(out[h.ws], ErrorEvent("state rate limit exceeded"))
                                         ELSE out[h.ws]]_vars

\* a session whose first state frame was admitted and stored and whose
\* second one, a different snapshot, was rejected with the error event
C21_Witness ==
    \E c \in Conns :
        /\ nFrames = 2 /\ redisQ = << >>
        /\ metaByWs[c] = "orig"
        /\ Get(metaObj[c].orig, "lastState") = S_badspeed
        /\ lastAdmitted[c] = [has |-> TRUE, v |-> S_badspeed]
        /\ out[c][Len(out[c])] = ErrorEvent("state rate limit exceeded")

\* a record of the socket holds a snapshot
HasState(c) == \E ref \in {"orig", "fresh"} : Truthy(Get(metaObj[c][ref], "lastState"))

SchedulerTypes == {"commentary", "commentary_chunk", "control", "coach"}

\* C22: a session receives a scheduler event (commentary, chunk, control,
\* coach, placeholders included) only after a state frame of it was admitted
\* and stored, and a worker consumes a point of the commentary limiter only
\* for a session whose record holds a snapshot.
C22_NothingBeforeState ==
    /\ [](\A c \in Conns :
            (\E k \in DOMAIN out[c] : out[c][k].type \in SchedulerTypes) =>
                lastAdmitted[c].has /\ HasState(c))
    /\ [][/\ \A t \in TickIds :
               /\ (ticks'[t] # ticks[t] /\ ticks'[t].pc = "consume") =>
                     lastAdmitted[ticks'[t].ws].has /\ HasState(ticks'[t].ws)
               /\ (coach'[t] # coach[t] /\ coach'[t].pc = "consume") =>
                     lastAdmitted[coach'[t].ws].has /\ HasState(coach'[t].ws)
          /\ \A k \in Keys :
               redis'["rl_commentary"][k] # redis["rl_commentary"][k] =>
                   \E t \in TickIds :
                       \/ /\ ticks'[t] # ticks[t] /\ ticks'[t].pc = "consume"
                          /\ userKey(ticks'[t].ws) = k
                       \/ /\ coach'[t] # coach[t] /\ coach'[t].pc = "consume"
                          /\ userKey(coach'[t].ws) = k]_vars

\* both workers have run over two open sessions of one user: the one with
\* a snapshot got commentary, the other, although its coach is enabled, got
\* nothing from them
C22_Witness ==
    \E c, d \in Conns :
        /\ c # d
        /\ \E k \in DOMAIN out[c] : out[c][k].type = "commentary"
        /\ ws[d].readyState = "OPEN" /\ metaByWs[d] = "orig"
        /\ metaObj[d].orig.coachEnabled = JsBool(TRUE)
        /\ metaObj[d].orig.lastState = JsNull
        /\ \A k \in DOMAIN out[d] : out[d][k].type \notin SchedulerTypes
        /\ coach[1].pc = "done"
        /\ redis["rl_commentary"]["u1"].n = 1

\* the lastCommentAt of the record a session was given at connection
LastCommentAt(objs, c) == NumOr0(Get(objs[c].orig, "lastCommentAt"))

\* C23: no step stores in a session's lastCommentAt a value smaller than
\* the one it holds.
C23_LastCommentAtMonotone ==
    [][\A c \in Conns : LastCommentAt(metaObj', c) >= LastCommentAt(metaObj, c)]_vars

\* C24: neither worker calls ws.send on a socket that is not open.
C24_NoSendAfterClose ==
    \A c \in Conns : sendsAfterClose[c] \cap {"commentary", "coach"} = {}

\* C25: a coach event is sent to a session only at a moment when the
\* coachEnabled of its record is true.
C25_NoCoachWhileDisabled ==
    [][\A c \in Conns :
          (/\ Len(out'[c]) > Len(out[c])
           /\ \E k \in (Len(out[c]) + 1)..Len(out'[c]) : out'[c][k].type = "coach") =>
              CoachOn(c)]_vars

====
